---- MODULE Spec2Model ----
(***************************************************************************)
(* Model of Core/Random.cpp: the roster (students), the set of names       *)
(* already drawn (RandomHashSet), the isInitialized flag and the mutex     *)
(* randomMutex, with the three exported functions RandomImport,            *)
(* ClearHistory and SimpleRandom called by several threads.  Each thread   *)
(* has a position (pc) in the function it is running; a function body is   *)
(* split at the places where the source branches or loops.                 *)
(***************************************************************************)
EXTENDS Integers, Sequences, FiniteSets, Bags, TLC

\* ------------------------------------------------------------- bounds
\* Number of calling threads.
NumThreads == 2
\* Largest number of data rows a roster file holds.
MaxRows == 4
\* vector<string>::max_size(), scaled down so that the capacity check of
\* RandomImport can fire.
max_size == 3
\* Largest `number` passed to SimpleRandom (the smallest is -1).
MaxNumber == 4

Threads == 1 .. NumThreads
Numbers == -1 .. MaxNumber

\* The data rows a roster file may hold, as character sequences.  Column 0
\* is an id, column 1 the name.
SampleRows ==
    { <<"1", ",", "A">>,                      \* 1,A
      <<"2", ",", "\"", "B", "\"">>,          \* 2,"B"
      <<"3", ",", " ", "A", " ", ",", "x">>,  \* 3, A ,x   (A again, padded)
      <<"4", ",", "C">>,                      \* 4,C
      <<"5">>,                                \* 5         (no name column)
      <<"6", ",", "\"", " ", "\"">> }         \* 6," "     (blank name)

NoThread == 0

VARIABLES
    students,          \* vector<string> students
    isInitialized,     \* bool isInitialized
    RandomHashSet,     \* unordered_set<string> RandomHashSet
    randomMutex,       \* the thread holding randomMutex, or NoThread
    pc,                \* pc[t]: where thread t is
    number,            \* number[t]: SimpleRandom's parameter
    availableIndices,  \* availableIndices[t]: SimpleRandom's local
    i,                 \* i[t]: SimpleRandom's loop counter
    output,            \* output[t]: SimpleRandom's local string
    selected,          \* selected[t]: the values of selectedStudent, in draw order
    ImportHashSet,     \* ImportHashSet[t]: RandomImport's local
    rowCount,          \* rowCount[t]: data rows read so far by RandomImport
    ret,               \* ret[t]: the value being returned
    pre,               \* pre[t]: the shared state when t acquired the mutex
    cycle,             \* bag of the names drawn since RandomHashSet was last cleared
    everImported,      \* whether some RandomImport has returned 0
    rows,              \* the data rows read by the RandomImport in progress (kept by LoaderSpec only)
    lastOp,            \* the call that returned last
    run                \* the current run of SimpleRandom(1) calls, see NextRun

vars == << students, isInitialized, RandomHashSet, randomMutex, pc, number,
           availableIndices, i, output, selected, ImportHashSet, rowCount,
           ret, pre, cycle, everImported, rows, lastOp, run >>

shared == << students, RandomHashSet, isInitialized >>
pickLocals == << availableIndices, i, output, selected >>
importLocals == << ImportHashSet, rowCount >>
ghosts == << cycle, everImported >>
history == << rows, lastOp, run >>

\* ------------------------------------------------------ pure helpers
Range(s) == { s[k] : k \in 1 .. Len(s) }

Whitespace == { " ", "\t", "\n", "\r" }

\* The token std::getline(ss, token, ',') extracts from s, and what is left.
Token(s) ==
    IF \E k \in 1 .. Len(s) : s[k] = ","
    THEN LET p == CHOOSE k \in 1 .. Len(s) :
                     s[k] = "," /\ \A m \in 1 .. k - 1 : s[m] # ","
         IN  SubSeq(s, 1, p - 1)
    ELSE s

AfterToken(s) ==
    IF \E k \in 1 .. Len(s) : s[k] = ","
    THEN LET p == CHOOSE k \in 1 .. Len(s) :
                     s[k] = "," /\ \A m \in 1 .. k - 1 : s[m] # ","
         IN  SubSeq(s, p + 1, Len(s))
    ELSE << >>

\* Lines 61-64: one leading and one trailing quote are removed.
StripQuotes(token) ==
    LET t1 == IF token # << >> /\ Head(token) = "\"" THEN Tail(token) ELSE token
    IN  IF t1 # << >> /\ t1[Len(t1)] = "\"" THEN SubSeq(t1, 1, Len(t1) - 1) ELSE t1

\* Lines 57-69: the loop over the columns of a line; name stays empty when
\* the line has no column 1.
RECURSIVE ScanColumns(_, _)
ScanColumns(s, columnIndex) ==
    IF s = << >> THEN << >>
    ELSE IF columnIndex = 1 THEN StripQuotes(Token(s))
    ELSE ScanColumns(AfterToken(s), columnIndex + 1)

\* Line 77: name.erase(0, name.find_first_not_of(" \t\n\r"))
RECURSIVE TrimLeft(_)
TrimLeft(s) ==
    IF s # << >> /\ Head(s) \in Whitespace THEN TrimLeft(Tail(s)) ELSE s

\* Line 78: name.erase(name.find_last_not_of(" \t\n\r") + 1)
RECURSIVE TrimRight(_)
TrimRight(s) ==
    IF s # << >> /\ s[Len(s)] \in Whitespace
    THEN TrimRight(SubSeq(s, 1, Len(s) - 1)) ELSE s

\* The name RandomImport takes from a data row (lines 52-78).
ParseName(line) == TrimRight(TrimLeft(ScanColumns(line, 0)))

\* `number > n` where number is an int and n a size_t: number is converted
\* to unsigned, so a negative number compares greater than every size.
ExceedsSize(num, n) == IF num < 0 THEN TRUE ELSE num > n

\* Element k (counted from 0, as in the source) of a vector.
At(s, k) == s[k + 1]

\* Mutant of ExceedsRoster: the bound is off by one.
ExceedsRoster_OffByOne(num, studs) == ExceedsSize(num, Len(studs) + 1)

\* Line 115: number > students.size()
ExceedsRoster(num, studs) == ExceedsSize(num, Len(studs))

\* Mutant of HistoryFull: > instead of >=.
HistoryFull_Strict(hash, studs) == Cardinality(hash) > Len(studs)

\* Mutant of HistoryFull: the history counts as full one entry early.
HistoryFull_OneEarly(hash, studs) == Cardinality(hash) + 1 >= Len(studs)

\* Line 121: RandomHashSet.size() >= students.size()
HistoryFull(hash, studs) == Cardinality(hash) >= Len(studs)

\* Mutant of AvailableFrom: the hash set is not consulted.
AvailableFrom_NoFilter(studs, hash, k) ==
    [ idx \in 1 .. Len(studs) - k |-> k + idx - 1 ]

\* Lines 127-135: the indices (from 0) of the students not in the hash set,
\* ascending, starting the scan at index k.
RECURSIVE AvailableFrom(_, _, _)
AvailableFrom(studs, hash, k) ==
    IF k >= Len(studs) THEN << >>
    ELSE IF At(studs, k) \notin hash
         THEN << k >> \o AvailableFrom(studs, hash, k + 1)
         ELSE AvailableFrom(studs, hash, k + 1)

\* Mutant of ExceedsAvailable: >= instead of >.
ExceedsAvailable_OrEqual(num, avail) == num < 0 \/ num >= Len(avail)

\* Line 143: number > availableIndices.size()
ExceedsAvailable(num, avail) == ExceedsSize(num, Len(avail))

\* Mutant of DistRange: the draw starts at 0 instead of i.
DistRange_FromZero(lo, avail) == 0 .. Len(avail) - 1

\* Mutant of DistRange: dist(i, i), the entry at i is always the one taken.
DistRange_NoShuffle(lo, avail) == { lo }

\* Line 154: uniform_int_distribution<> dist(i, availableIndices.size() - 1)
DistRange(lo, avail) == lo .. Len(avail) - 1

\* Line 158: swap(v[a], v[b]), a and b counted from 0.
Swap(s, a, b) == [ s EXCEPT ![a + 1] = s[b + 1], ![b + 1] = s[a + 1] ]

Separator == << " ", " " >>

\* The values SimpleRandom, ClearHistory or RandomImport can return.
NoRet == [ kind |-> "none" ]
RetInt(v) == [ kind |-> "int", value |-> v ]
RetVoid == [ kind |-> "void" ]
RetText(s) == [ kind |-> "text", text |-> s ]
\* "Not Initialized!"
NotInitializedText ==
    << "N", "o", "t", " ", "I", "n", "i", "t", "i", "a", "l", "i", "z",
    "e", "d", "!" >>
\* "Not enough students!"
NotEnoughText ==
    << "N", "o", "t", " ", "e", "n", "o", "u", "g", "h", " ", "s", "t",
    "u", "d", "e", "n", "t", "s", "!" >>
\* "Not enough available students!"
NotEnoughAvailableText ==
    << "N", "o", "t", " ", "e", "n", "o", "u", "g", "h", " ", "a", "v",
    "a", "i", "l", "a", "b", "l", "e", " ", "s", "t", "u", "d", "e", "n",
    "t", "s", "!" >>

Snapshot == [ students |-> students, RandomHashSet |-> RandomHashSet,
              isInitialized |-> isInitialized ]
NoSnapshot == [ students |-> << >>, RandomHashSet |-> {},
                isInitialized |-> FALSE ]

\* ---------------------------------------------------------------- Init
Init ==
    /\ students = << >>
    /\ isInitialized = FALSE
    /\ RandomHashSet = {}
    /\ randomMutex = NoThread
    /\ pc = [ t \in Threads |-> "idle" ]
    /\ number = [ t \in Threads |-> 0 ]
    /\ availableIndices = [ t \in Threads |-> << >> ]
    /\ i = [ t \in Threads |-> 0 ]
    /\ output = [ t \in Threads |-> << >> ]
    /\ selected = [ t \in Threads |-> << >> ]
    /\ ImportHashSet = [ t \in Threads |-> {} ]
    /\ rowCount = [ t \in Threads |-> 0 ]
    /\ ret = [ t \in Threads |-> NoRet ]
    /\ pre = [ t \in Threads |-> NoSnapshot ]
    /\ cycle = EmptyBag
    /\ everImported = FALSE
    /\ rows = << >>
    /\ lastOp = "none"
    /\ run = [ ok |-> TRUE, names |-> << >> ]

\* ------------------------------------------------------------- calls
\* A thread calls one of the exported functions and arrives at its
\* lock_guard.
CallRandomImport(t) ==
    /\ pc[t] = "idle"
    /\ pc' = [ pc EXCEPT ![t] = "import_lock" ]
    /\ UNCHANGED << history,
                    shared, randomMutex, number, pickLocals, importLocals,
                    ret, pre, ghosts >>

CallClearHistory(t) ==
    /\ pc[t] = "idle"
    /\ pc' = [ pc EXCEPT ![t] = "clear_lock" ]
    /\ UNCHANGED << history,
                    shared, randomMutex, number, pickLocals, importLocals,
                    ret, pre, ghosts >>

CallSimpleRandom(t) ==
    /\ pc[t] = "idle"
    /\ pc' = [ pc EXCEPT ![t] = "pick_lock" ]
    /\ UNCHANGED << history,
                    shared, randomMutex, number, pickLocals, importLocals,
                    ret, pre, ghosts >>

\* lock_guard<mutex> lock(randomMutex): blocks until the mutex is free.
Acquire(t, from, to) ==
    /\ pc[t] = from
    /\ randomMutex = NoThread
    /\ randomMutex' = t
    /\ pre' = [ pre EXCEPT ![t] = Snapshot ]
    /\ pc' = [ pc EXCEPT ![t] = to ]
    /\ UNCHANGED << history, shared, pickLocals, importLocals, ret, ghosts >>

\* ------------------------------------------------------ RandomImport
\* Line 32.
ImportLock(t) ==
    /\ Acquire(t, "import_lock", "import_clear")
    /\ UNCHANGED number

\* Mutant of ImportClear: line 34 is missing.
ImportClear_KeepHistory(t) ==
    /\ pc[t] = "import_clear"
    /\ students' = << >>
    /\ pc' = [ pc EXCEPT ![t] = "import_open" ]
    /\ UNCHANGED << history, RandomHashSet, isInitialized, randomMutex, number,
                    pickLocals, importLocals, ret, pre, ghosts >>

\* Mutant of ImportClear: line 33 is missing, the new names are added to
\* the old roster.
ImportClear_KeepRoster(t) ==
    /\ pc[t] = "import_clear"
    /\ RandomHashSet' = {}
    /\ cycle' = EmptyBag
    /\ pc' = [ pc EXCEPT ![t] = "import_open" ]
    /\ UNCHANGED << history, students, isInitialized, randomMutex, number,
                    pickLocals, importLocals, ret, pre, everImported >>

\* Mutant of ImportClear: the flag is reset together with the containers.
ImportClear_ResetFlag(t) ==
    /\ pc[t] = "import_clear"
    /\ students' = << >>
    /\ RandomHashSet' = {}
    /\ isInitialized' = FALSE
    /\ cycle' = EmptyBag
    /\ pc' = [ pc EXCEPT ![t] = "import_open" ]
    /\ UNCHANGED << history, randomMutex, number, pickLocals, importLocals,
                    ret, pre, everImported >>

\* Lines 33-34.
ImportClear(t) ==
    /\ pc[t] = "import_clear"
    /\ students' = << >>
    /\ RandomHashSet' = {}
    /\ cycle' = EmptyBag
    /\ pc' = [ pc EXCEPT ![t] = "import_open" ]
    /\ UNCHANGED << history, isInitialized, randomMutex, number, pickLocals,
                    importLocals, ret, pre, everImported >>

\* Lines 41-49: the file opens or not; when it opens its header line is read
\* and dropped.
ImportOpen(t) ==
    /\ pc[t] = "import_open"
    /\ \/ /\ ret' = [ ret EXCEPT ![t] = RetInt(-1) ]
          /\ pc' = [ pc EXCEPT ![t] = "return" ]
       \/ /\ pc' = [ pc EXCEPT ![t] = "import_read" ]
          /\ UNCHANGED ret
    /\ UNCHANGED << history,
                    shared, randomMutex, number, pickLocals, importLocals,
                    pre, ghosts >>

\* Mutant of ImportRow: line 81 is missing, a name seen before is added
\* again.
ImportRow_NoDedup(t, line) ==
    /\ pc[t] = "import_read"
    /\ rowCount[t] < MaxRows
    /\ IF Len(students) >= max_size
       THEN /\ ret' = [ ret EXCEPT ![t] = RetInt(-1) ]
            /\ pc' = [ pc EXCEPT ![t] = "return" ]
            /\ UNCHANGED << students, importLocals >>
       ELSE LET name == ParseName(line)
            IN  /\ rowCount' = [ rowCount EXCEPT ![t] = @ + 1 ]
                /\ IF name = << >>
                   THEN UNCHANGED << students, ImportHashSet >>
                   ELSE /\ students' = Append(students, name)
                        /\ ImportHashSet' =
                               [ ImportHashSet EXCEPT ![t] = @ \cup { name } ]
                /\ UNCHANGED << ret, pc >>
    /\ UNCHANGED << RandomHashSet, isInitialized, randomMutex, number,
                    pickLocals, pre, ghosts, lastOp, run >>

\* Lines 50-85, one pass of the loop: a data row is read.
ImportRow(t, line) ==
    /\ pc[t] = "import_read"
    /\ rowCount[t] < MaxRows
    /\ IF Len(students) >= max_size
       THEN /\ ret' = [ ret EXCEPT ![t] = RetInt(-1) ]
            /\ pc' = [ pc EXCEPT ![t] = "return" ]
            /\ UNCHANGED << students, importLocals >>
       ELSE LET name == ParseName(line)
            IN  /\ rowCount' = [ rowCount EXCEPT ![t] = @ + 1 ]
                /\ IF name = << >> \/ name \in ImportHashSet[t]
                   THEN UNCHANGED << students, ImportHashSet >>
                   ELSE /\ students' = Append(students, name)
                        /\ ImportHashSet' =
                               [ ImportHashSet EXCEPT ![t] = @ \cup { name } ]
                /\ UNCHANGED << ret, pc >>
    /\ UNCHANGED << RandomHashSet, isInitialized, randomMutex, number,
                    pickLocals, pre, ghosts, lastOp, run >>

\* Line 50: getline finds the end of the file.
ImportEof(t) ==
    /\ pc[t] = "import_read"
    /\ pc' = [ pc EXCEPT ![t] = "import_end" ]
    /\ UNCHANGED << history,
                    shared, randomMutex, number, pickLocals, importLocals,
                    ret, pre, ghosts >>

\* Mutant of ImportEnd: the flag is set before the roster is checked.
ImportEnd_FlagBeforeCheck(t) ==
    /\ pc[t] = "import_end"
    /\ isInitialized' = TRUE
    /\ IF students = << >>
       THEN /\ ret' = [ ret EXCEPT ![t] = RetInt(-1) ]
            /\ UNCHANGED << ImportHashSet, everImported >>
       ELSE /\ ImportHashSet' = [ ImportHashSet EXCEPT ![t] = {} ]
            /\ everImported' = TRUE
            /\ ret' = [ ret EXCEPT ![t] = RetInt(0) ]
    /\ pc' = [ pc EXCEPT ![t] = "return" ]
    /\ UNCHANGED << history,
                    students, RandomHashSet, randomMutex, number, pickLocals,
                    rowCount, pre, cycle >>

\* Lines 86-96.
ImportEnd(t) ==
    /\ pc[t] = "import_end"
    /\ IF students = << >>
       THEN /\ ret' = [ ret EXCEPT ![t] = RetInt(-1) ]
            /\ UNCHANGED << isInitialized, ImportHashSet, everImported >>
       ELSE /\ ImportHashSet' = [ ImportHashSet EXCEPT ![t] = {} ]
            /\ isInitialized' = TRUE
            /\ everImported' = TRUE
            /\ ret' = [ ret EXCEPT ![t] = RetInt(0) ]
    /\ pc' = [ pc EXCEPT ![t] = "return" ]
    /\ UNCHANGED << history,
                    students, RandomHashSet, randomMutex, number, pickLocals,
                    rowCount, pre, cycle >>

\* ------------------------------------------------------ ClearHistory
\* Mutant of ClearLock: ClearHistory without its lock_guard.
ClearLock_NoGuard(t) ==
    /\ pc[t] = "clear_lock"
    /\ pre' = [ pre EXCEPT ![t] = Snapshot ]
    /\ pc' = [ pc EXCEPT ![t] = "clear_body" ]
    /\ UNCHANGED << history,
                    shared, randomMutex, number, pickLocals, importLocals,
                    ret, ghosts >>

\* Line 101.
ClearLock(t) ==
    /\ Acquire(t, "clear_lock", "clear_body")
    /\ UNCHANGED number

\* Mutant of ClearBody: the history is cleared only when it is full.
ClearBody_OnlyWhenFull(t) ==
    /\ pc[t] = "clear_body"
    /\ IF HistoryFull(RandomHashSet, students)
       THEN RandomHashSet' = {} /\ cycle' = EmptyBag
       ELSE UNCHANGED << RandomHashSet, cycle >>
    /\ ret' = [ ret EXCEPT ![t] = RetVoid ]
    /\ pc' = [ pc EXCEPT ![t] = "return" ]
    /\ UNCHANGED << history, students, isInitialized, randomMutex, number,
                    pickLocals, importLocals, pre, everImported >>

\* Mutant of ClearBody: students is cleared too, as in RandomImport.
ClearBody_ClearsRoster(t) ==
    /\ pc[t] = "clear_body"
    /\ students' = << >>
    /\ RandomHashSet' = {}
    /\ cycle' = EmptyBag
    /\ ret' = [ ret EXCEPT ![t] = RetVoid ]
    /\ pc' = [ pc EXCEPT ![t] = "return" ]
    /\ UNCHANGED << history, isInitialized, randomMutex, number, pickLocals,
                    importLocals, pre, everImported >>

\* Line 102.
ClearBody(t) ==
    /\ pc[t] = "clear_body"
    /\ RandomHashSet' = {}
    /\ cycle' = EmptyBag
    /\ ret' = [ ret EXCEPT ![t] = RetVoid ]
    /\ pc' = [ pc EXCEPT ![t] = "return" ]
    /\ UNCHANGED << history,
                    students, isInitialized, randomMutex, number, pickLocals,
                    importLocals, pre, everImported >>

\* ------------------------------------------------------ SimpleRandom
\* Lines 106-108: the body starts, with n the value of the parameter number.
PickLock(t, n) ==
    /\ Acquire(t, "pick_lock", "pick_checks")
    /\ number' = [ number EXCEPT ![t] = n ]

\* Mutant of PickChecks: the history is cleared (lines 121-124) before the
\* request is checked against the roster.
PickChecks_ResetFirst(t) ==
    /\ pc[t] = "pick_checks"
    /\ IF ~isInitialized
       THEN /\ ret' = [ ret EXCEPT ![t] = RetText(NotInitializedText) ]
            /\ pc' = [ pc EXCEPT ![t] = "return" ]
            /\ UNCHANGED << RandomHashSet, cycle >>
       ELSE /\ IF HistoryFull(RandomHashSet, students)
               THEN RandomHashSet' = {} /\ cycle' = EmptyBag
               ELSE UNCHANGED << RandomHashSet, cycle >>
            /\ IF ExceedsRoster(number[t], students)
               THEN /\ ret' = [ ret EXCEPT ![t] = RetText(NotEnoughText) ]
                    /\ pc' = [ pc EXCEPT ![t] = "return" ]
               ELSE /\ pc' = [ pc EXCEPT ![t] = "pick_reset" ]
                    /\ UNCHANGED ret
    /\ UNCHANGED << history,
                    students, isInitialized, randomMutex, number, pickLocals,
                    importLocals, pre, everImported >>

\* Lines 110-118.
PickChecks(t) ==
    /\ pc[t] = "pick_checks"
    /\ IF ~isInitialized
       THEN /\ ret' = [ ret EXCEPT ![t] = RetText(NotInitializedText) ]
            /\ pc' = [ pc EXCEPT ![t] = "return" ]
       ELSE IF ExceedsRoster(number[t], students)
       THEN /\ ret' = [ ret EXCEPT ![t] = RetText(NotEnoughText) ]
            /\ pc' = [ pc EXCEPT ![t] = "return" ]
       ELSE /\ pc' = [ pc EXCEPT ![t] = "pick_reset" ]
            /\ UNCHANGED ret
    /\ UNCHANGED << history,
                    shared, randomMutex, number, pickLocals, importLocals,
                    pre, ghosts >>

\* Mutant of PickReset: the history is cleared at every call.
PickReset_Always(t) ==
    /\ pc[t] = "pick_reset"
    /\ RandomHashSet' = {}
    /\ cycle' = EmptyBag
    /\ pc' = [ pc EXCEPT ![t] = "pick_available" ]
    /\ UNCHANGED << history,
                    students, isInitialized, randomMutex, number, pickLocals,
                    importLocals, ret, pre, everImported >>

\* Lines 121-124.
PickReset(t) ==
    /\ pc[t] = "pick_reset"
    /\ IF HistoryFull(RandomHashSet, students)
       THEN /\ RandomHashSet' = {}
            /\ cycle' = EmptyBag
       ELSE UNCHANGED << RandomHashSet, cycle >>
    /\ pc' = [ pc EXCEPT ![t] = "pick_available" ]
    /\ UNCHANGED << history,
                    students, isInitialized, randomMutex, number, pickLocals,
                    importLocals, ret, pre, everImported >>

\* Lines 127-135.
PickAvailable(t) ==
    /\ pc[t] = "pick_available"
    /\ availableIndices' =
           [ availableIndices EXCEPT
                 ![t] = AvailableFrom(students, RandomHashSet, 0) ]
    /\ pc' = [ pc EXCEPT ![t] = "pick_enough" ]
    /\ UNCHANGED << history, shared, randomMutex, number, i, output, selected,
                    importLocals, ret, pre, ghosts >>

\* Lines 143-151: the check against the available count, then i = 0.
PickEnough(t) ==
    /\ pc[t] = "pick_enough"
    /\ IF ExceedsAvailable(number[t], availableIndices[t])
       THEN /\ ret' = [ ret EXCEPT ![t] = RetText(NotEnoughAvailableText) ]
            /\ pc' = [ pc EXCEPT ![t] = "return" ]
       ELSE /\ pc' = [ pc EXCEPT ![t] = "pick_loop" ]
            /\ UNCHANGED ret
    /\ UNCHANGED << history,
                    shared, randomMutex, number, pickLocals, importLocals,
                    pre, ghosts >>

\* Lines 151-174, one pass of the loop with randomPos the value drawn.
PickDraw(t, randomPos) ==
    /\ pc[t] = "pick_loop"
    /\ i[t] < number[t]
    /\ randomPos \in DistRange(i[t], availableIndices[t])
    /\ LET swapped == Swap(availableIndices[t], i[t], randomPos)
           selectedStudent == At(students, At(swapped, i[t]))
       IN  /\ availableIndices' = [ availableIndices EXCEPT ![t] = swapped ]
           /\ output' =
                  [ output EXCEPT
                        ![t] = IF i[t] < number[t] - 1
                               THEN @ \o selectedStudent \o Separator
                               ELSE @ \o selectedStudent ]
           /\ selected' = [ selected EXCEPT ![t] = Append(@, selectedStudent) ]
           /\ RandomHashSet' = RandomHashSet \cup { selectedStudent }
           /\ cycle' = cycle (+) SetToBag({ selectedStudent })
    /\ i' = [ i EXCEPT ![t] = @ + 1 ]
    /\ UNCHANGED << history, students, isInitialized, randomMutex, pc, number,
                    importLocals, ret, pre, everImported >>

\* Lines 151 and 176: the loop is over and output is returned.
PickFinish(t) ==
    /\ pc[t] = "pick_loop"
    /\ ~ (i[t] < number[t])
    /\ ret' = [ ret EXCEPT ![t] = RetText(output[t]) ]
    /\ pc' = [ pc EXCEPT ![t] = "return" ]
    /\ UNCHANGED << history,
                    shared, randomMutex, number, pickLocals, importLocals,
                    pre, ghosts >>

\* ------------------------------------------------------------ return
\* What is recorded of the call thread t returns from: which function, for
\* RandomImport its result, for ClearHistory whether it found the history
\* partly filled.
Completed(t) ==
    IF ret[t].kind = "int"
    THEN IF ret[t].value = 0 THEN "import_ok" ELSE "import_failed"
    ELSE IF ret[t].kind = "void"
    THEN IF 0 < Cardinality(pre[t].RandomHashSet)
            /\ Cardinality(pre[t].RandomHashSet) < Len(pre[t].students)
         THEN "clear_partial" ELSE "clear"
    ELSE "pick"

\* The run of SimpleRandom(1) calls after the call thread t returns from.
\* RandomImport and ClearHistory start a run, with nothing drawn.  A
\* SimpleRandom(1) that returns a name carries the run on: run.names are the
\* names returned in the current block of as many calls as the roster has
\* entries, in order.  Any other SimpleRandom ends the run (ok is false)
\* until the next RandomImport or ClearHistory.
NextRun(t) ==
    IF ret[t].kind \in { "int", "void" }
    THEN [ ok |-> TRUE, names |-> << >> ]
    ELSE IF run.ok /\ number[t] = 1 /\ Len(selected[t]) = 1
    THEN [ ok |-> TRUE,
           names |-> IF Len(run.names) >= Len(students)
                     THEN selected[t]
                     ELSE run.names \o selected[t] ]
    ELSE [ ok |-> FALSE, names |-> << >> ]

\* Mutant of Return: the path that returns -1 leaves the mutex locked.
Return_LeakOnFailure(t) ==
    /\ pc[t] = "return"
    /\ randomMutex' = IF ret[t] = RetInt(-1) THEN randomMutex ELSE NoThread
    /\ pc' = [ pc EXCEPT ![t] = "idle" ]
    /\ number' = [ number EXCEPT ![t] = 0 ]
    /\ availableIndices' = [ availableIndices EXCEPT ![t] = << >> ]
    /\ i' = [ i EXCEPT ![t] = 0 ]
    /\ output' = [ output EXCEPT ![t] = << >> ]
    /\ selected' = [ selected EXCEPT ![t] = << >> ]
    /\ ImportHashSet' = [ ImportHashSet EXCEPT ![t] = {} ]
    /\ rowCount' = [ rowCount EXCEPT ![t] = 0 ]
    /\ ret' = [ ret EXCEPT ![t] = NoRet ]
    /\ pre' = [ pre EXCEPT ![t] = NoSnapshot ]
    /\ rows' = << >>
    /\ lastOp' = Completed(t)
    /\ run' = NextRun(t)
    /\ UNCHANGED << shared, ghosts >>

\* The function returns: lock_guard's destructor releases the mutex and the
\* locals go away.
Return(t) ==
    /\ pc[t] = "return"
    /\ randomMutex' = NoThread
    /\ pc' = [ pc EXCEPT ![t] = "idle" ]
    /\ number' = [ number EXCEPT ![t] = 0 ]
    /\ availableIndices' = [ availableIndices EXCEPT ![t] = << >> ]
    /\ i' = [ i EXCEPT ![t] = 0 ]
    /\ output' = [ output EXCEPT ![t] = << >> ]
    /\ selected' = [ selected EXCEPT ![t] = << >> ]
    /\ ImportHashSet' = [ ImportHashSet EXCEPT ![t] = {} ]
    /\ rowCount' = [ rowCount EXCEPT ![t] = 0 ]
    /\ ret' = [ ret EXCEPT ![t] = NoRet ]
    /\ pre' = [ pre EXCEPT ![t] = NoSnapshot ]
    /\ rows' = << >>
    /\ lastOp' = Completed(t)
    /\ run' = NextRun(t)
    /\ UNCHANGED << shared, ghosts >>

Next ==
    \E t \in Threads :
        \/ CallRandomImport(t)
        \/ CallClearHistory(t)
        \/ CallSimpleRandom(t)
        \/ ImportLock(t)
        \/ ImportClear(t)
        \/ ImportOpen(t)
        \/ \E line \in SampleRows : ImportRow(t, line) /\ UNCHANGED rows
        \/ ImportEof(t)
        \/ ImportEnd(t)
        \/ ClearLock(t)
        \/ ClearBody(t)
        \/ \E n \in Numbers : PickLock(t, n)
        \/ PickChecks(t)
        \/ PickReset(t)
        \/ PickAvailable(t)
        \/ PickEnough(t)
        \/ \E randomPos \in 0 .. max_size : PickDraw(t, randomPos)
        \/ PickFinish(t)
        \/ Return(t)

Spec == Init /\ [][Next]_vars

\* ---------------------------------------------------------- fairness
\* A thread at a lock_guard takes the mutex.
LockStep(t) ==
    \/ ImportLock(t)
    \/ ClearLock(t)
    \/ \E n \in Numbers : PickLock(t, n)

\* A thread inside a body takes its next step, the return included.
BodyStep(t) ==
    \/ ImportClear(t)
    \/ ImportOpen(t)
    \/ \E line \in SampleRows : ImportRow(t, line) /\ UNCHANGED rows
    \/ ImportEof(t)
    \/ ImportEnd(t)
    \/ ClearBody(t)
    \/ PickChecks(t)
    \/ PickReset(t)
    \/ PickAvailable(t)
    \/ PickEnough(t)
    \/ \E randomPos \in 0 .. max_size : PickDraw(t, randomPos)
    \/ PickFinish(t)
    \/ Return(t)

\* Fair scheduling: a thread that can run its body keeps running, and a
\* thread that waits for the mutex gets it if it is free again and again.
FairSpec ==
    /\ Spec
    /\ \A t \in Threads : WF_vars(BodyStep(t)) /\ SF_vars(LockStep(t))

\* ------------------------------------------------------- the loader
\* The calls of RandomImport alone, with the rows each call reads kept in
\* `rows`.
LoaderNext ==
    \E t \in Threads :
        \/ CallRandomImport(t)
        \/ ImportLock(t)
        \/ ImportClear(t)
        \/ ImportOpen(t)
        \/ \E line \in SampleRows :
               ImportRow(t, line) /\ rows' = Append(rows, line)
        \/ ImportEof(t)
        \/ ImportEnd(t)
        \/ Return(t)

LoaderSpec == Init /\ [][LoaderNext]_vars

\* ------------------------------------------------ vocabulary of the claims
ErrorTexts == { NotInitializedText, NotEnoughText, NotEnoughAvailableText }

\* Thread t is at the return statement of the named function, still holding
\* the mutex: the shared state is the one the call leaves behind.
ImportReturns(t) == pc[t] = "return" /\ ret[t].kind = "int"
ImportFails(t) == ImportReturns(t) /\ ret[t].value = -1
ImportSucceeds(t) == ImportReturns(t) /\ ret[t].value = 0
PickReturns(t) == pc[t] = "return" /\ ret[t].kind = "text"
PickFailsWith(t, text) == PickReturns(t) /\ ret[t].text = text
PickFails(t) == PickReturns(t) /\ ret[t].text \in ErrorTexts
PickSucceeds(t) == PickReturns(t) /\ ret[t].text \notin ErrorTexts

IsDistinct(s) == \A a, b \in 1 .. Len(s) : a # b => s[a] # s[b]

\* The names joined by the two-space separator.
RECURSIVE JoinNames(_)
JoinNames(names) ==
    IF names = << >> THEN << >>
    ELSE IF Len(names) = 1 THEN names[1]
    ELSE names[1] \o Separator \o JoinNames(Tail(names))

\* The shared state at the start of t's call.
PreSize(t) == Len(pre[t].students)
PreDrawn(t) == Cardinality(pre[t].RandomHashSet)
PreFull(t) == PreDrawn(t) >= PreSize(t)
PrePartial(t) == 0 < PreDrawn(t) /\ PreDrawn(t) < PreSize(t)
\* The exhaustion set a pick works with: the one at the start of the call,
\* or the empty set when that one was full.
PreDrawnAfterReset(t) == IF PreFull(t) THEN {} ELSE pre[t].RandomHashSet

\* C1: between two clears of the exhaustion set (import, ClearHistory, the
\* automatic clear of a pick) no name is drawn twice, over all the picks of
\* the cycle together.
C1_UniqueWithinCycle ==
    \A nm \in BagToSet(cycle) : CopiesIn(nm, cycle) = 1

\* A pick that drew at least one name returns in a cycle that an earlier
\* call had already started.
C1_Witness ==
    \E t \in Threads :
        /\ PickSucceeds(t)
        /\ selected[t] # << >>
        /\ PrePartial(t)
        /\ BagCardinality(cycle) = PreDrawn(t) + Len(selected[t])

\* C2 as claimed: a failed import leaves Roster, ExhaustionSet and
\* InitializedFlag as they were before the call, so that a roster loaded
\* earlier remains usable.  Stated for the calls that find a loaded roster.
C2_FailedImportLeavesState ==
    \A t \in Threads :
        ( ImportFails(t) /\ pre[t].isInitialized ) => Snapshot = pre[t]

\* C3: a successful pick(n) returns exactly n pairwise distinct names, in
\* draw order and joined by the separator, each a roster entry that was not
\* in the exhaustion set once the call's possible clear was done.
C3_PickReturnsDistinctAvailable ==
    \A t \in Threads :
        PickSucceeds(t) =>
            /\ Len(selected[t]) = number[t]
            /\ IsDistinct(selected[t])
            /\ Range(selected[t]) \subseteq
                   Range(students) \ PreDrawnAfterReset(t)
            /\ ret[t].text = JoinNames(selected[t])

C3_Witness ==
    \E t \in Threads :
        /\ PickSucceeds(t)
        /\ number[t] = 2
        /\ PrePartial(t)

\* C4: when the exhaustion set is as large as the roster at the start of
\* pick(n), 0 <= n <= roster size, the call empties the set before it
\* computes the available entries, succeeds, and leaves only its own draws
\* in the set.
C4_ExhaustionReset ==
    \A t \in Threads :
        ( /\ pre[t].isInitialized
          /\ PreFull(t)
          /\ 0 <= number[t]
          /\ number[t] <= PreSize(t) ) =>
            /\ pc[t] = "pick_available" => RandomHashSet = {}
            /\ PickReturns(t) =>
                   /\ PickSucceeds(t)
                   /\ RandomHashSet = Range(selected[t])

\* After a full cycle of a roster of two or more, a pick returns a name of
\* the previous cycle.
C4_Witness ==
    \E t \in Threads :
        /\ PickSucceeds(t)
        /\ PreSize(t) >= 2
        /\ PreDrawn(t) = PreSize(t)
        /\ \E k \in 1 .. Len(selected[t]) :
               selected[t][k] \in pre[t].RandomHashSet

\* C5 as claimed: on an initialized engine pick(n) with n <= roster size
\* never fails with "Not enough available students!".
C5_InsufficientOnlyBeyondRoster ==
    \A t \in Threads :
        ( /\ PickReturns(t)
          /\ pre[t].isInitialized
          /\ number[t] <= PreSize(t) ) =>
            ret[t].text # NotEnoughAvailableText

\* C5 amended: pick(n) fails with "Not enough available students!" exactly
\* when n is at most the roster size, the exhaustion set at the start of the
\* call is partly filled, and n exceeds the number of roster entries not in
\* it.
C5_InsufficientIffPartial ==
    \A t \in Threads :
        PickReturns(t) =>
            ( ret[t].text = NotEnoughAvailableText
              <=> /\ pre[t].isInitialized
                  /\ 0 <= number[t]
                  /\ number[t] <= PreSize(t)
                  /\ PrePartial(t)
                  /\ number[t] > PreSize(t) - PreDrawn(t) )

C5_Witness ==
    \E t \in Threads :
        /\ PickFailsWith(t, NotEnoughAvailableText)
        /\ number[t] <= PreSize(t)

\* C6: on an initialized engine pick(n) with n above the roster size returns
\* "Not enough students!", whatever the exhaustion set holds.
C6_CapacityGuard ==
    \A t \in Threads :
        ( /\ PickReturns(t)
          /\ pre[t].isInitialized
          /\ number[t] > PreSize(t) ) =>
            ret[t].text = NotEnoughText

C6_Witness ==
    \E t \in Threads :
        /\ PickFailsWith(t, NotEnoughText)
        /\ number[t] > PreSize(t)
        /\ PrePartial(t)

\* C7: as long as no import has succeeded, the flag is false and every pick
\* returns "Not Initialized!".
C7_UninitializedGuard ==
    ~ everImported =>
        /\ ~ isInitialized
        /\ \A t \in Threads :
               PickReturns(t) => ret[t].text = NotInitializedText

\* A pick is refused after an import that failed on the capacity check and
\* left names in the roster.
C7_Witness ==
    /\ ~ everImported
    /\ students # << >>
    /\ \E t \in Threads :
           PickFailsWith(t, NotInitializedText) /\ number[t] = 1

\* C8 as claimed: whenever no call is in progress and the flag is true, the
\* roster is non-empty and holds no empty and no duplicate name.
C8_RosterInvariant ==
    ( randomMutex = NoThread /\ isInitialized ) =>
        /\ students # << >>
        /\ << >> \notin Range(students)
        /\ IsDistinct(students)

\* C9: the exhaustion set is a subset of the roster in every state.
C9_HistoryWithinRoster ==
    /\ RandomHashSet \subseteq Range(students)
    /\ Cardinality(RandomHashSet) <= Len(students)

\* An import succeeds with a roster other than the one it found, after names
\* had been drawn from that one.
C9_Witness ==
    \E t \in Threads :
        /\ ImportSucceeds(t)
        /\ pre[t].RandomHashSet # {}
        /\ Range(students) # Range(pre[t].students)

\* C10: a pick that fails leaves Roster, ExhaustionSet and InitializedFlag as
\* they were at the start of the call.
C10_FailedPickLeavesState ==
    \A t \in Threads : PickFails(t) => Snapshot = pre[t]

\* A pick fails on a full exhaustion set, which a pick that went on would
\* have cleared.
C10_Witness ==
    \E t \in Threads :
        /\ PickFails(t)
        /\ PreSize(t) >= 1
        /\ PreDrawn(t) = PreSize(t)

\* Thread t is inside the body of a function: past its lock_guard and not
\* yet returned.
InBody(t) == pc[t] \notin { "idle", "import_lock", "clear_lock", "pick_lock" }

\* C11: the threads inside a body are exactly the holder of the mutex, so at
\* most one is; the shared state changes only in steps of the holder, and the
\* state a call starts from is the one the call before it left.  The calls
\* therefore take effect one after the other, in the order in which they
\* acquire the mutex.
C11_MutualExclusion ==
    /\ [] ( \A t \in Threads : InBody(t) <=> randomMutex = t )
    /\ [][ shared' # shared =>
               /\ randomMutex # NoThread
               /\ randomMutex' = randomMutex
               /\ \A u \in Threads \ { randomMutex } : pc'[u] = pc[u] ]_vars
    /\ [][ \A t \in Threads :
               ( ~ InBody(t) /\ InBody(t)' ) => pre'[t] = Snapshot ]_vars

\* An import has cleared the roster of an initialized engine and has not
\* returned, while another thread waits at the lock_guard of SimpleRandom.
C11_Witness ==
    \E t, u \in Threads :
        /\ pc[t] = "pick_lock"
        /\ pc[u] \in { "import_open", "import_read", "import_end" }
        /\ isInitialized
        /\ pre[u].students # << >>
        /\ students # pre[u].students

ReturnsWholeRoster(t) ==
    /\ PickSucceeds(t)
    /\ Len(selected[t]) = Len(students)
    /\ IsDistinct(selected[t])
    /\ Range(selected[t]) = Range(students)

\* C13: when RandomImport has read its rows the roster holds exactly the
\* names this call accepted, none of the roster before; the successful
\* return leaves that roster, an empty exhaustion set and the flag true; and
\* the pick(roster size) that comes next succeeds and returns every entry.
C13_ImportReplaces ==
    /\ [] ( \A t \in Threads :
              /\ pc[t] = "import_end" =>
                     /\ Range(students) = ImportHashSet[t]
                     /\ IsDistinct(students)
              /\ ImportSucceeds(t) =>
                     /\ students # << >>
                     /\ RandomHashSet = {}
                     /\ isInitialized
              /\ ( PickReturns(t) /\ lastOp = "import_ok"
                     /\ number[t] = PreSize(t) ) => ReturnsWholeRoster(t) )
    /\ [][ \A t \in Threads :
               pc[t] = "import_end" => students' = students ]_vars

\* The first pick after a successful import asks for the whole roster of two
\* or more and gets it.
C13_Witness ==
    \E t \in Threads :
        /\ PickSucceeds(t)
        /\ lastOp = "import_ok"
        /\ number[t] = PreSize(t)
        /\ PreSize(t) >= 2

ClearReturns(t) == pc[t] = "return" /\ ret[t].kind = "void"

\* C14: ClearHistory has no failing path and leaves the exhaustion set
\* empty, on an uninitialized engine too; on an initialized engine with a
\* roster that is not empty, the pick(roster size) that comes right after a
\* ClearHistory succeeds and returns every roster entry once.
C14_ResetMakesAllAvailable ==
    \A t \in Threads :
        /\ pc[t] = "clear_body" => ENABLED ClearBody(t)
        /\ ClearReturns(t) => RandomHashSet = {}
        /\ ( /\ PickReturns(t)
             /\ lastOp \in { "clear", "clear_partial" }
             /\ pre[t].isInitialized
             /\ PreSize(t) >= 1
             /\ number[t] = PreSize(t) ) => ReturnsWholeRoster(t)

\* ClearHistory found the history partly filled, and the pick that follows
\* it returns the whole roster.
C14_Witness ==
    \E t \in Threads :
        /\ PickSucceeds(t)
        /\ lastOp = "clear_partial"
        /\ number[t] = PreSize(t)
        /\ PreSize(t) >= 2

\* C15: a RandomImport that returns -1 leaves isInitialized as it found it,
\* whether it failed to open the file, hit the capacity check or ended with
\* no name; the flag is untouched at every place such a return starts from.
C15_FailedImportKeepsFlag ==
    \A t \in Threads :
        ( \/ ImportFails(t)
          \/ pc[t] \in { "import_open", "import_read", "import_end" } ) =>
            isInitialized = pre[t].isInitialized

\* A failed import has emptied a loaded roster and the flag is still true.
C15_Witness ==
    \E t \in Threads :
        /\ ImportFails(t)
        /\ pre[t].isInitialized
        /\ pre[t].students # << >>
        /\ students = << >>
        /\ isInitialized

\* The trimmed name of each of the rows read.
TrimmedNames == [ k \in 1 .. Len(rows) |-> ParseName(rows[k]) ]

\* The place of the first row whose trimmed name is nm.
FirstRowOf(nm) ==
    CHOOSE k \in 1 .. Len(rows) :
        /\ TrimmedNames[k] = nm
        /\ \A j \in 1 .. k - 1 : TrimmedNames[j] # nm

\* C16: while RandomImport reads its rows, and when it returns 0, the roster
\* holds the non-empty trimmed names of the rows read, each once, in the
\* order of their first rows.
C16_ImportDedup ==
    \A t \in Threads :
        ( pc[t] \in { "import_read", "import_end" } \/ ImportSucceeds(t) ) =>
            /\ Range(students) = Range(TrimmedNames) \ { << >> }
            /\ IsDistinct(students)
            /\ \A a, b \in 1 .. Len(students) :
                   a < b => FirstRowOf(students[a]) < FirstRowOf(students[b])

\* An import succeeds on four rows of which one repeats a name, with other
\* padding, and one has a blank name.
C16_Witness ==
    \E t \in Threads :
        /\ ImportSucceeds(t)
        /\ Len(rows) = 4
        /\ Len(students) = 2
        /\ \E j, k \in 1 .. Len(rows) :
               /\ j < k
               /\ rows[j] # rows[k]
               /\ TrimmedNames[j] = TrimmedNames[k]
               /\ TrimmedNames[j] # << >>
        /\ \E k \in 1 .. Len(rows) : TrimmedNames[k] = << >>

\* C17: in a run of SimpleRandom(1) calls that starts from an empty
\* exhaustion set, on a roster of R >= 1 entries, every call succeeds; the
\* names returned in the current block of R calls are distinct roster
\* entries, so a full block holds every entry once; the call made when one
\* entry is left returns that entry; and between calls the exhaustion set is
\* the set of names of the current block.
C17_FullCycleCoverage ==
    /\ ( run.ok /\ randomMutex = NoThread ) =>
           /\ IsDistinct(run.names)
           /\ Range(run.names) \subseteq Range(students)
           /\ RandomHashSet = Range(run.names)
    /\ \A t \in Threads :
           ( /\ PickReturns(t)
             /\ run.ok
             /\ number[t] = 1
             /\ pre[t].isInitialized
             /\ PreSize(t) >= 1 ) =>
               /\ PickSucceeds(t)
               /\ Len(run.names) < PreSize(t) =>
                      selected[t][1] \notin Range(run.names)
               /\ Len(run.names) = PreSize(t) - 1 =>
                      Range(students) \ Range(run.names) = { selected[t][1] }

\* After a full block on a roster of two or more, the next call returns a
\* name of that block.
C17_Witness ==
    \E t \in Threads :
        /\ PickSucceeds(t)
        /\ run.ok
        /\ number[t] = 1
        /\ PreSize(t) >= 2
        /\ Len(run.names) = PreSize(t)
        /\ selected[t][1] \in Range(run.names)

\* Thread t is inside the body of SimpleRandom or of ClearHistory.
InPickOrClear(t) ==
    \/ pc[t] \in { "clear_body", "pick_checks", "pick_reset",
                   "pick_available", "pick_enough", "pick_loop" }
    \/ PickReturns(t)
    \/ ClearReturns(t)

\* C18: from the lock_guard to the return of SimpleRandom and ClearHistory,
\* whatever they return, the roster (entries and order) and the flag are the
\* ones the call found.
C18_PickAndResetKeepRoster ==
    \A t \in Threads :
        InPickOrClear(t) =>
            /\ students = pre[t].students
            /\ isInitialized = pre[t].isInitialized

\* A call has changed the exhaustion set of a roster of two or more and
\* returns.
C18_Witness ==
    \E t \in Threads :
        /\ PickSucceeds(t) \/ ClearReturns(t)
        /\ PreSize(t) >= 2
        /\ RandomHashSet # pre[t].RandomHashSet

\* The steps that clear RandomHashSet: lines 34, 102 and 123.
ClearingStep ==
    \E t \in Threads : pc[t] \in { "import_clear", "clear_body", "pick_reset" }

\* C19: when SimpleRandom(n) returns names, RandomHashSet is the set the call
\* found (the empty set when that one had reached the roster size) united
\* with the n names returned, which are n different names outside it, so its
\* size is n after the clear of line 123 and the old size plus n otherwise;
\* and a step that is not one of the clears never removes a name from
\* RandomHashSet, while a clear leaves it empty.
C19_ExhaustionAccounting ==
    /\ [] ( \A t \in Threads :
              PickSucceeds(t) =>
                  /\ Len(selected[t]) = number[t]
                  /\ IsDistinct(selected[t])
                  /\ Range(selected[t]) \cap PreDrawnAfterReset(t) = {}
                  /\ RandomHashSet =
                         PreDrawnAfterReset(t) \cup Range(selected[t])
                  /\ Cardinality(RandomHashSet) =
                         IF PreFull(t) THEN number[t]
                                       ELSE PreDrawn(t) + number[t] )
    /\ [][ \/ RandomHashSet \subseteq RandomHashSet'
           \/ RandomHashSet' = {} /\ ClearingStep ]_vars

\* A call that found some but not all names drawn returns one or more names.
C19_Witness ==
    \E t \in Threads :
        PickSucceeds(t) /\ PrePartial(t) /\ number[t] >= 1

\* The available indices of lines 127-135 for the call of thread t, from the
\* state the call found: roster order, names drawn left out, none left out
\* when the set had reached the roster size.
AvailableAtStart(t) ==
    AvailableFrom(pre[t].students, PreDrawnAfterReset(t), 0)

\* The available names that the call of thread t has not selected so far.
Remaining(t) ==
    ( Range(pre[t].students) \ PreDrawnAfterReset(t) ) \ Range(selected[t])

\* Thread t is in the loop of lines 151-174 or returns from it.
InLoop(t) == pc[t] = "pick_loop" \/ PickSucceeds(t)

\* C20: in the loop of lines 151-174 and at its end, availableIndices is a
\* permutation of the indices computed at lines 127-135, its positions
\* 0 .. i-1 hold the entries selected so far in the order drawn, and these
\* are different available entries, number of them at the return; while the
\* loop goes on, each available entry not yet selected can be the next one;
\* and each pass swaps position i with a position j, i <= j <= size - 1.
C20_PartialFisherYates ==
    /\ [] ( \A t \in Threads :
              InLoop(t) =>
                  /\ Len(availableIndices[t]) = Len(AvailableAtStart(t))
                  /\ Range(availableIndices[t]) = Range(AvailableAtStart(t))
                  /\ i[t] = Len(selected[t])
                  /\ i[t] <= number[t]
                  /\ \A k \in 0 .. i[t] - 1 :
                         selected[t][k + 1] =
                             At(students, At(availableIndices[t], k))
                  /\ IsDistinct(selected[t])
                  /\ PickSucceeds(t) =>
                         /\ i[t] = number[t]
                         /\ ret[t].text = JoinNames(selected[t])
                  /\ ( pc[t] = "pick_loop" /\ i[t] < number[t] ) =>
                         \A name \in Remaining(t) :
                             ENABLED ( /\ \E randomPos \in 0 .. max_size :
                                              PickDraw(t, randomPos)
                                       /\ selected'[t] =
                                              Append(selected[t], name) ) )
    /\ [][ \A t \in Threads :
             ( pc[t] = "pick_loop" /\ i'[t] # i[t] ) =>
                 /\ i'[t] = i[t] + 1
                 /\ \E j \in i[t] .. Len(availableIndices[t]) - 1 :
                        availableIndices'[t] =
                            Swap(availableIndices[t], i[t], j) ]_vars

\* A call returns two or more names in an order that is not roster order.
C20_Witness ==
    \E t \in Threads :
        /\ PickSucceeds(t)
        /\ number[t] >= 2
        /\ At(availableIndices[t], 0) > At(availableIndices[t], 1)

====
